---- MODULE Spec2Model ----
(***************************************************************************)
(* Model of crypto/ed25519/ed25519.go: the PrivKey and PubKey wrappers     *)
(* around the Ed25519 signature scheme.                                    *)
(*                                                                         *)
(* PrivKey and PubKey are Go slices ([]byte): a value of either type is a  *)
(* window (array, offset, length) onto a backing array.  The model keeps   *)
(* the backing arrays in `heap` and the slice values in `refs`, so that    *)
(* two slices onto one array share its bytes, as they do in Go.            *)
(*                                                                         *)
(* The signature primitive (golang.org/x/crypto/ed25519) is modelled by a  *)
(* Schnorr signature over the additive group of integers modulo the prime  *)
(* GroupOrder, which keeps the algebra by which Verify accepts exactly the *)
(* signatures made with the key's own public point.                        *)
(***************************************************************************)
EXTENDS Integers, Sequences, FiniteSets, TLC

VARIABLES heap, refs, last, derived, writes

vars == <<heap, refs, last, derived, writes>>

----------------------------------------------------------------------------
(* Constants of the package                                                *)

PubKeySize == 32

PrivateKeySize == 64

SeedSize == 32

TruncatedSize == 20

PrivKeyAminoPrefix == <<163, 40, 137, 16>>

PubKeyAminoPrefix == <<22, 36, 222, 100>>

ErrUninitialized == "Expected PrivKeyEd25519 to include concatenated pubkey bytes"

ErrPubKeySize == "pubkey is incorrect size"

ErrSliceBounds == "runtime error: slice bounds out of range"

ErrBadPrivateKeyLength == "ed25519: bad private key length"

ErrBadPublicKeyLength == "ed25519: bad public key length"

ErrEntropy == "unexpected EOF"

----------------------------------------------------------------------------
(* Byte strings                                                            *)

Zeros(n) == [i \in 1..n |-> 0]

Fill(n, b) == [i \in 1..n |-> b]

IsZero(bz) == \A i \in 1..Len(bz) : bz[i] = 0

(* bz[lo:hi] of Go, lo and hi counted from 0, hi exclusive *)
Slice(bz, lo, hi) == SubSeq(bz, lo + 1, hi)

(* the weighted sum of bz[lo..hi], position by position *)
RECURSIVE MixRange(_, _, _)
MixRange(bz, lo, hi) ==
    IF lo > hi THEN 0
    ELSE IF lo = hi THEN (bz[lo] + 1) * (lo * lo + 3 * lo + 7)
    ELSE LET mid == (lo + hi) \div 2
         IN  MixRange(bz, lo, mid) + MixRange(bz, mid + 1, hi)

(* a digest of bz in 0..m-1 *)
Mix(bz, m) == (MixRange(bz, 1, Len(bz)) + 31 * Len(bz) + 7) % m

(* crypto.Sha256: a 32-byte digest *)
Sha256(bz) ==
    LET d == Mix(bz, 65521)
    IN  [i \in 1..32 |-> (d + (d \div 256) * i + 13 * i * i) % 256]

(* tmhash.SumTruncated: the first TruncatedSize bytes of the SHA-256 digest *)
SumTruncated(bz) == SubSeq(Sha256(bz), 1, TruncatedSize)

----------------------------------------------------------------------------
(* The signature primitive                                                 *)

GroupOrder == 251

BasePoint == 9

(* the secret scalar of a seed: never zero, as after clamping *)
ScalarOf(seed) == 1 + Mix(seed, GroupOrder - 1)

(* the nonce prefix of a seed: the other half of the seed's digest *)
PrefixOf(seed) == <<Mix(seed, 241), Mix(seed, 239)>>

(* the 32-byte little-endian encoding of a group element or scalar *)
Encode32(x) == <<x>> \o Zeros(31)

IsEncoding(bz) == Len(bz) = 32 /\ bz[1] < GroupOrder /\ IsZero(Tail(bz))

(* the challenge scalar h = H(R || A || M), never zero *)
Challenge(encR, pubBytes, msg) == 1 + Mix(encR \o pubBytes \o msg, GroupOrder - 1)

(* derive_public: the public key of a seed *)
DerivePublic(seed) == Encode32((ScalarOf(seed) * BasePoint) % GroupOrder)

(* ed25519.NewKeyFromSeed: seed || public key, 64 bytes *)
NewKeyFromSeed(seed) == seed \o DerivePublic(seed)

(* ed25519.Sign: panics unless the key is 64 bytes; the challenge hashes the
   public key held in bytes 32..64 of the private key *)
Ed25519Sign(privateKey, msg) ==
    IF Len(privateKey) # PrivateKeySize
    THEN [kind |-> "panic", err |-> ErrBadPrivateKeyLength, out |-> <<>>]
    ELSE LET seed == Slice(privateKey, 0, 32)
             a    == ScalarOf(seed)
             r    == Mix(PrefixOf(seed) \o msg, GroupOrder)
             encR == Encode32((r * BasePoint) % GroupOrder)
             h    == Challenge(encR, Slice(privateKey, 32, 64), msg)
             s    == (r + h * a) % GroupOrder
         IN  [kind |-> "ok", err |-> "", out |-> encR \o Encode32(s)]

(* ed25519.Verify: panics unless the public key is 32 bytes; false for a
   signature of the wrong length or shape, or a key that is no group element;
   otherwise whether s*B - h*A re-encodes to the signature's R *)
Ed25519Verify(publicKey, msg, sig) ==
    IF Len(publicKey) # PubKeySize
    THEN [kind |-> "panic", err |-> ErrBadPublicKeyLength, val |-> FALSE]
    ELSE IF Len(sig) # 64 \/ sig[64] >= 32
    THEN [kind |-> "ok", err |-> "", val |-> FALSE]
    ELSE IF ~IsEncoding(publicKey) \/ ~IsEncoding(Slice(sig, 32, 64))
    THEN [kind |-> "ok", err |-> "", val |-> FALSE]
    ELSE LET A      == publicKey[1]
             h      == Challenge(Slice(sig, 0, 32), publicKey, msg)
             s      == sig[33]
             checkR == (s * BasePoint + (GroupOrder - 1) * h * A) % GroupOrder
         IN  [kind |-> "ok", err |-> "", val |-> Encode32(checkR) = Slice(sig, 0, 32)]

----------------------------------------------------------------------------
(* PrivKey                                                                 *)

(* AminoMarshal of a byte slice registered under a name: the type prefix,
   the length, the raw bytes *)
AminoMarshal(prefix, raw) == prefix \o <<Len(raw)>> \o raw

(* the decoder of the type-tagged encoding: the key type and raw bytes, or
   the unknown-key-type error for untagged or mis-tagged bytes *)
Decode(bz) ==
    LET body == IF Len(bz) >= 5 THEN SubSeq(bz, 6, Len(bz)) ELSE <<>>
        tagged(prefix) == /\ Len(bz) >= 5
                          /\ SubSeq(bz, 1, 4) = prefix
                          /\ bz[5] = Len(body)
    IN  IF tagged(PrivKeyAminoPrefix)
        THEN [kind |-> "ok", err |-> "", typ |-> "PrivKey", raw |-> body]
        ELSE IF tagged(PubKeyAminoPrefix)
        THEN [kind |-> "ok", err |-> "", typ |-> "PubKey", raw |-> body]
        ELSE [kind |-> "error", err |-> "UnknownKeyType", typ |-> "", raw |-> <<>>]

(* PrivKey.Bytes: the amino encoding of the key; a fresh buffer *)
PrivKey_Bytes(privKey) ==
    [kind |-> "ok", err |-> "", out |-> AminoMarshal(PrivKeyAminoPrefix, privKey)]

(* PrivKey.Sign: hands the key as it is to ed25519.Sign; the error is nil *)
Sign(privKey, msg) == Ed25519Sign(privKey, msg)

(* PrivKey.PubKey returning the seed half, privKey[:32] *)
PrivKey_PubKey_SeedHalf(privKey) ==
    IF Len(privKey) < 32
    THEN [kind |-> "panic", err |-> ErrSliceBounds, off |-> 0, len |-> 0, out |-> <<>>]
    ELSE IF IsZero(Slice(privKey, 32, Len(privKey)))
    THEN [kind |-> "panic", err |-> ErrUninitialized, off |-> 0, len |-> 0, out |-> <<>>]
    ELSE [kind |-> "ok", err |-> "", off |-> 0, len |-> 32, out |-> Slice(privKey, 0, 32)]

(* PrivKey.PubKey without the test for an all-zero tail *)
PrivKey_PubKey_NoInitCheck(privKey) ==
    IF Len(privKey) < 32
    THEN [kind |-> "panic", err |-> ErrSliceBounds, off |-> 0, len |-> 0, out |-> <<>>]
    ELSE [kind |-> "ok", err |-> "", off |-> 32, len |-> Len(privKey) - 32,
          out |-> Slice(privKey, 32, Len(privKey))]

(* PrivKey.PubKey: the window privKey[32:] onto the key's own backing array,
   unless every byte of it is zero.  off and len give the window, relative
   to the start of privKey; out is what it shows at the time of the call *)
PrivKey_PubKey(privKey) ==
    IF Len(privKey) < 32
    THEN [kind |-> "panic", err |-> ErrSliceBounds, off |-> 0, len |-> 0, out |-> <<>>]
    ELSE LET tail == Slice(privKey, 32, Len(privKey))
             initialized == \E i \in 1..Len(tail) : tail[i] # 0
         IN  IF ~initialized
             THEN [kind |-> "panic", err |-> ErrUninitialized,
                   off |-> 0, len |-> 0, out |-> <<>>]
             ELSE [kind |-> "ok", err |-> "",
                   off |-> 32, len |-> Len(privKey) - 32, out |-> tail]

(* subtle.ConstantTimeCompare: 0 for different lengths, else the OR of the
   bytewise differences folded over the whole length *)
RECURSIVE DiffRange(_, _, _, _)
DiffRange(x, y, lo, hi) ==
    IF lo > hi THEN 0
    ELSE IF lo = hi THEN (IF x[lo] # y[lo] THEN 1 ELSE 0)
    ELSE LET mid == (lo + hi) \div 2
             v   == DiffRange(x, y, lo, mid)
             w   == DiffRange(x, y, mid + 1, hi)
         IN  IF v # 0 \/ w # 0 THEN 1 ELSE 0

ConstantTimeCompare(x, y) ==
    IF Len(x) # Len(y) THEN 0
    ELSE IF DiffRange(x, y, 1, Len(x)) = 0 THEN 1 ELSE 0

(* PrivKey.Equals without the type assertion *)
PrivKey_Equals_AnyType(privKey, other) == ConstantTimeCompare(privKey, other.bz) = 1

(* PrivKey.Equals: other is a crypto.PrivKey, given as its dynamic type and
   its bytes *)
PrivKey_Equals(privKey, other) ==
    IF other.typ = "PrivKey"
    THEN ConstantTimeCompare(privKey, other.bz) = 1
    ELSE FALSE

(* genPrivKey keeping the seed and leaving the public half unset *)
genPrivKey_SeedOnly(rand) ==
    IF rand.err # ""
    THEN [kind |-> "panic", err |-> rand.err, out |-> <<>>]
    ELSE [kind |-> "ok", err |-> "", out |-> rand.seed \o Zeros(32)]

(* genPrivKey: rand is the outcome of io.ReadFull on the entropy source *)
genPrivKey(rand) ==
    IF rand.err # ""
    THEN [kind |-> "panic", err |-> rand.err, out |-> <<>>]
    ELSE [kind |-> "ok", err |-> "", out |-> NewKeyFromSeed(rand.seed)]

(* GenPrivKeyFromSecret hashing only the first byte of the secret *)
GenPrivKeyFromSecret_FirstByte(secret) ==
    NewKeyFromSeed(Sha256(SubSeq(secret, 1, IF Len(secret) > 0 THEN 1 ELSE 0)))

GenPrivKeyFromSecret(secret) ==
    LET seed == Sha256(secret)
    IN  NewKeyFromSeed(seed)

----------------------------------------------------------------------------
(* PubKey                                                                  *)

(* PubKey.Address without the size test *)
Address_NoLenCheck(pubKey) == [kind |-> "ok", err |-> "", out |-> SumTruncated(pubKey)]

(* PubKey.Address *)
Address(pubKey) ==
    IF Len(pubKey) # PubKeySize
    THEN [kind |-> "panic", err |-> ErrPubKeySize, out |-> <<>>]
    ELSE [kind |-> "ok", err |-> "", out |-> SumTruncated(pubKey)]

(* PubKey.Bytes: []byte(pubKey), the same window under another type *)
PubKey_Bytes(pubKey) ==
    [kind |-> "ok", err |-> "", off |-> 0, len |-> Len(pubKey), out |-> pubKey]

(* PubKey.VerifyBytes without the signature length test *)
VerifyBytes_NoLenCheck(pubKey, msg, sig) ==
    LET v == Ed25519Verify(pubKey, msg, sig)
    IN  [kind |-> v.kind, err |-> v.err, val |-> v.val, prim |-> TRUE]

(* PubKey.VerifyBytes: prim tells whether ed25519.Verify was called *)
VerifyBytes(pubKey, msg, sig) ==
    IF Len(sig) # PrivateKeySize
    THEN [kind |-> "ok", err |-> "", val |-> FALSE, prim |-> FALSE]
    ELSE LET v == Ed25519Verify(pubKey, msg, sig)
         IN  [kind |-> v.kind, err |-> v.err, val |-> v.val, prim |-> TRUE]

HexDigits == <<"0", "1", "2", "3", "4", "5", "6", "7",
               "8", "9", "A", "B", "C", "D", "E", "F">>

(* PubKey.String: "PubKeyEd25519{" then two upper-case hex digits a byte *)
String(pubKey) ==
    <<"PubKeyEd25519{">>
    \o [i \in 1..(2 * Len(pubKey)) |->
          LET b == pubKey[(i + 1) \div 2]
          IN  IF i % 2 = 1 THEN HexDigits[(b \div 16) + 1] ELSE HexDigits[(b % 16) + 1]]
    \o <<"}">>

(* PubKey.Equals *)
PubKey_Equals(pubKey, other) ==
    IF other.typ = "PubKey" THEN pubKey = other.bz ELSE FALSE

----------------------------------------------------------------------------
(* Bounds and inputs                                                       *)

MaxBufs == 1

MaxRefs == 3

MaxWrites == 1

(* what io.ReadFull on the entropy source gives: 32 bytes, or an error *)
EntropyReads ==
    { [err |-> "", seed |-> Fill(SeedSize, 1)],
      [err |-> "", seed |-> Fill(SeedSize, 2)],
      [err |-> ErrEntropy, seed |-> <<>>] }

Secrets == { <<115>>, <<115, 116>> }

Msgs == { <<>>, <<104, 105>> }

(* byte strings converted to PrivKey after decoding: all zero; a seed with
   another seed's public key; too short to hold a public key; short with a
   non-zero tail; one byte too long *)
UntrustedPrivKeys ==
    { Zeros(64),
      Fill(32, 1) \o DerivePublic(Fill(32, 2)),
      Fill(31, 3),
      Fill(40, 5),
      Zeros(64) \o <<1>> }

(* byte strings converted to PubKey after decoding *)
UntrustedPubKeys ==
    { Fill(31, 4),
      DerivePublic(Fill(32, 1)),
      Fill(32, 255) }

(* signatures of the wrong length *)
BadSigs == { Zeros(63), Zeros(65) }

(* signatures received from a peer, made with a key not held here *)
PeerSigs == { Ed25519Sign(NewKeyFromSeed(Fill(32, 2)), msg).out : msg \in Msgs }

(* PrivKey and PubKey values passed in by a caller as the other operand *)
PeerKeys ==
    { [typ |-> "PrivKey", bz |-> NewKeyFromSeed(Fill(32, 2))],
      [typ |-> "PrivKey", bz |-> Fill(31, 3)],
      [typ |-> "PubKey", bz |-> DerivePublic(Fill(32, 1))] }

(* keys of another implementation of crypto.PrivKey / crypto.PubKey *)
ForeignKeys ==
    { [typ |-> "Foreign", bz |-> NewKeyFromSeed(Fill(32, 1))],
      [typ |-> "Foreign", bz |-> DerivePublic(Fill(32, 1))] }

----------------------------------------------------------------------------
(* State                                                                   *)

ViewIn(h, r) == SubSeq(h[r.arr], r.off + 1, r.off + r.len)

(* the bytes the slice refs[i] shows *)
View(i) == ViewIn(heap, refs[i])

RefsOf(typ) == { i \in 1..Len(refs) : refs[i].typ = typ }

NoResult ==
    [op |-> "", recv |-> 0, kind |-> "ok", err |-> "", out |-> <<>>,
     val |-> FALSE, prim |-> FALSE, msg |-> <<>>, sig |-> <<>>,
     secret |-> <<>>, other |-> [typ |-> "", bz |-> <<>>], str |-> <<>>]

Init ==
    /\ heap = <<>>
    /\ refs = <<>>
    /\ last = NoResult
    /\ derived = {}
    /\ writes = 0

(* no call is in progress: the caller has taken the result of the last one *)
Idle == last.op = ""

(* a new backing array holding bz, and the slice of type typ onto all of it;
   the value is dropped when the caller has no room to keep it *)
Store(typ, bz) ==
    IF Len(heap) < MaxBufs /\ Len(refs) < MaxRefs
    THEN /\ heap' = Append(heap, bz)
         /\ refs' = Append(refs, [typ |-> typ, arr |-> Len(heap) + 1,
                                  off |-> 0, len |-> Len(bz)])
    ELSE UNCHANGED <<heap, refs>>

(* a slice of type typ onto the backing array of refs[i] *)
Alias(typ, i, off, len) ==
    LET r == [typ |-> typ, arr |-> refs[i].arr, off |-> refs[i].off + off, len |-> len]
    IN  IF Len(refs) < MaxRefs /\ \A k \in 1..Len(refs) : refs[k] # r
        THEN refs' = Append(refs, r)
        ELSE UNCHANGED refs

----------------------------------------------------------------------------
(* Construction                                                            *)

GenPrivKey ==
    /\ Idle
    /\ \E rand \in EntropyReads :
        LET res == genPrivKey(rand)
        IN  /\ last' = [NoResult EXCEPT !.op = "GenPrivKey", !.kind = res.kind,
                                        !.err = res.err, !.out = res.out]
            /\ IF res.kind = "ok" THEN Store("PrivKey", res.out)
                                  ELSE UNCHANGED <<heap, refs>>
            /\ UNCHANGED <<derived, writes>>

GenPrivKeyFromSecretCall ==
    /\ Idle
    /\ \E secret \in Secrets :
        LET key == GenPrivKeyFromSecret(secret)
        IN  /\ last' = [NoResult EXCEPT !.op = "GenPrivKeyFromSecret",
                                        !.secret = secret, !.out = key]
            /\ Store("PrivKey", key)
            /\ derived' = derived \cup {<<secret, key>>}
            /\ UNCHANGED writes

(* PrivKey(bz): the conversion of decoded bytes *)
WrapPrivKey ==
    /\ Idle
    /\ \E bz \in UntrustedPrivKeys :
        /\ Len(heap) < MaxBufs /\ Len(refs) < MaxRefs
        /\ Store("PrivKey", bz)
        /\ last' = [NoResult EXCEPT !.op = "WrapPrivKey", !.out = bz]
        /\ UNCHANGED <<derived, writes>>

(* PubKey(bz): the conversion of decoded bytes *)
WrapPubKey ==
    /\ Idle
    /\ \E bz \in UntrustedPubKeys :
        /\ Len(heap) < MaxBufs /\ Len(refs) < MaxRefs
        /\ Store("PubKey", bz)
        /\ last' = [NoResult EXCEPT !.op = "WrapPubKey", !.out = bz]
        /\ UNCHANGED <<derived, writes>>

----------------------------------------------------------------------------
(* Operations on a PrivKey                                                 *)

PrivKeyBytesCall ==
    /\ Idle
    /\ \E i \in RefsOf("PrivKey") :
        LET res == PrivKey_Bytes(View(i))
        IN  /\ last' = [NoResult EXCEPT !.op = "PrivKey.Bytes", !.recv = i,
                                        !.kind = res.kind, !.out = res.out]
            /\ UNCHANGED <<heap, refs, derived, writes>>

SignCall ==
    /\ Idle
    /\ \E i \in RefsOf("PrivKey"), msg \in Msgs :
        LET res == Sign(View(i), msg)
        IN  /\ last' = [NoResult EXCEPT !.op = "Sign", !.recv = i, !.msg = msg,
                                        !.kind = res.kind, !.err = res.err,
                                        !.out = res.out]
            /\ UNCHANGED <<heap, refs, derived, writes>>

PubKeyCall ==
    /\ Idle
    /\ \E i \in RefsOf("PrivKey") :
        LET res == PrivKey_PubKey(View(i))
        IN  /\ last' = [NoResult EXCEPT !.op = "PubKey", !.recv = i,
                                        !.kind = res.kind, !.err = res.err,
                                        !.out = res.out]
            /\ IF res.kind = "ok" THEN Alias("PubKey", i, res.off, res.len)
                                  ELSE UNCHANGED refs
            /\ UNCHANGED <<heap, derived, writes>>

PrivKeyEqualsCall ==
    /\ Idle
    /\ \E i \in RefsOf("PrivKey") :
        \E other \in { [typ |-> "PrivKey", bz |-> View(k)] : k \in RefsOf("PrivKey") }
                     \cup { k \in PeerKeys : k.typ = "PrivKey" }
                     \cup ForeignKeys :
            /\ last' = [NoResult EXCEPT !.op = "PrivKey.Equals", !.recv = i,
                                        !.other = other,
                                        !.val = PrivKey_Equals(View(i), other)]
            /\ UNCHANGED <<heap, refs, derived, writes>>

----------------------------------------------------------------------------
(* Operations on a PubKey                                                  *)

AddressCall ==
    /\ Idle
    /\ \E j \in RefsOf("PubKey") :
        LET res == Address(View(j))
        IN  /\ last' = [NoResult EXCEPT !.op = "Address", !.recv = j,
                                        !.kind = res.kind, !.err = res.err,
                                        !.out = res.out]
            /\ UNCHANGED <<heap, refs, derived, writes>>

PubKeyBytesCall ==
    /\ Idle
    /\ \E j \in RefsOf("PubKey") :
        LET res == PubKey_Bytes(View(j))
        IN  /\ last' = [NoResult EXCEPT !.op = "PubKey.Bytes", !.recv = j,
                                        !.kind = res.kind, !.out = res.out]
            /\ Alias("bytes", j, res.off, res.len)
            /\ UNCHANGED <<heap, derived, writes>>

(* the signatures at hand: those the keys held can make, and malformed ones *)
Sigs ==
    { Sign(View(i), msg).out :
        i \in { k \in RefsOf("PrivKey") : refs[k].len = PrivateKeySize }, msg \in Msgs }
    \cup PeerSigs \cup BadSigs

VerifyBytesCall ==
    /\ Idle
    /\ \E j \in RefsOf("PubKey"), msg \in Msgs, sig \in Sigs :
        LET res == VerifyBytes(View(j), msg, sig)
        IN  /\ last' = [NoResult EXCEPT !.op = "VerifyBytes", !.recv = j,
                                        !.msg = msg, !.sig = sig,
                                        !.kind = res.kind, !.err = res.err,
                                        !.val = res.val, !.prim = res.prim]
            /\ UNCHANGED <<heap, refs, derived, writes>>

StringCall ==
    /\ Idle
    /\ \E j \in RefsOf("PubKey") :
        /\ last' = [NoResult EXCEPT !.op = "String", !.recv = j,
                                    !.str = String(View(j))]
        /\ UNCHANGED <<heap, refs, derived, writes>>

PubKeyEqualsCall ==
    /\ Idle
    /\ \E j \in RefsOf("PubKey") :
        \E other \in { [typ |-> "PubKey", bz |-> View(k)] : k \in RefsOf("PubKey") }
                     \cup { k \in PeerKeys : k.typ = "PubKey" }
                     \cup ForeignKeys :
            /\ last' = [NoResult EXCEPT !.op = "PubKey.Equals", !.recv = j,
                                        !.other = other,
                                        !.val = PubKey_Equals(View(j), other)]
            /\ UNCHANGED <<heap, refs, derived, writes>>

----------------------------------------------------------------------------
(* The caller's stores through a slice it holds                            *)

(* the byte b with its lowest bit flipped *)
FlipBit(b) == IF b % 2 = 0 THEN b + 1 ELSE b - 1

(* s[idx] ^= 1 for a PubKey or []byte s the caller was given; idx counts from
   1 and is the slice's first or last byte *)
Write ==
    /\ Idle
    /\ writes < MaxWrites
    /\ writes' = writes + 1
    /\ \E j \in RefsOf("PubKey") \cup RefsOf("bytes") :
        /\ refs[j].len > 0
        /\ \E idx \in {1, refs[j].len} :
              LET at == refs[j].off + idx
              IN  /\ heap' = [heap EXCEPT ![refs[j].arr][at] = FlipBit(@)]
                  /\ last' = [NoResult EXCEPT !.op = "Write", !.recv = j]
        /\ UNCHANGED <<refs, derived>>

----------------------------------------------------------------------------

(* the caller takes the result; the next call starts from there *)
Return ==
    /\ ~Idle
    /\ last' = NoResult
    /\ UNCHANGED <<heap, refs, derived, writes>>

Calls ==
    \/ GenPrivKey
    \/ GenPrivKeyFromSecretCall
    \/ WrapPrivKey
    \/ WrapPubKey
    \/ PrivKeyBytesCall
    \/ SignCall
    \/ PubKeyCall
    \/ PrivKeyEqualsCall
    \/ AddressCall
    \/ PubKeyBytesCall
    \/ VerifyBytesCall
    \/ StringCall
    \/ PubKeyEqualsCall
    \/ Return

Next == Calls

Spec == Init /\ [][Next]_vars

NextShared == Calls \/ Write

SpecShared == Init /\ [][NextShared]_vars

----------------------------------------------------------------------------
(* Properties                                                              *)

(* the layout of section 3: 64 bytes, the last 32 the public key of the
   first 32 *)
WellFormed(k) ==
    /\ Len(k) = PrivateKeySize
    /\ Slice(k, 32, 64) = DerivePublic(Slice(k, 0, 32))

(* the keys Generate and DeriveFromSecret return *)
ProducedKeys ==
    { genPrivKey(rand).out : rand \in { r \in EntropyReads : r.err = "" } }
    \cup { GenPrivKeyFromSecret(secret) : secret \in Secrets }

Receiver == View(last.recv)

(* C1: for every initialized PrivateKey k, one that Generate or
   DeriveFromSecret produces, and every message m, DerivePublicKey(k) and
   Sign(k, m) succeed and Verify(DerivePublicKey(k), m, Sign(k, m)) returns
   true (evaluated between calls, for the keys then held); and every
   VerifyBytes call made with such a key's public key, a message and the
   key's signature of that message returned true. *)
ThmC1 ==
    /\ \A i \in RefsOf("PrivKey"), m \in Msgs :
          (Idle /\ View(i) \in ProducedKeys) =>
              LET pub == PrivKey_PubKey(View(i))
                  sig == Sign(View(i), m)
              IN  /\ pub.kind = "ok" /\ sig.kind = "ok"
                  /\ VerifyBytes(pub.out, m, sig.out).kind = "ok"
                  /\ VerifyBytes(pub.out, m, sig.out).val
    /\ (/\ last.op = "VerifyBytes"
        /\ \E i \in RefsOf("PrivKey") :
              /\ View(i) \in ProducedKeys
              /\ Receiver = PrivKey_PubKey(View(i)).out
              /\ last.sig = Sign(View(i), last.msg).out)
       => (last.kind = "ok" /\ last.val)

WitC1 ==
    /\ last.op = "VerifyBytes"
    /\ last.val
    /\ \E i \in RefsOf("PrivKey") :
          /\ View(i) \in ProducedKeys
          /\ refs[last.recv].arr = refs[i].arr
          /\ refs[last.recv].off = refs[i].off + 32
          /\ last.sig = Sign(View(i), last.msg).out

(* C2: VerifyBytes with a signature whose length is not 64 returns false,
   whatever the public key and the message: it does not panic and does not
   call ed25519.Verify. *)
ThmC2 ==
    (last.op = "VerifyBytes" /\ Len(last.sig) # 64)
    => (last.kind = "ok" /\ ~last.val /\ ~last.prim)

WitC2 ==
    /\ last.op = "VerifyBytes"
    /\ Len(last.sig) = 63
    /\ Len(Receiver) # PubKeySize
    /\ ~last.val

(* C3 as stated: PubKey() on a key whose bytes 32..64 are all zero fails
   with the typed UninitializedKey error; on a key with a non-zero byte
   there it returns bytes 32..64, 32 bytes. *)
CxC3 ==
    (last.op = "PubKey" /\ Len(Receiver) >= 64)
    => IF IsZero(Slice(Receiver, 32, 64))
       THEN last.kind = "error" /\ last.err = "UninitializedKey"
       ELSE last.kind = "ok" /\ last.out = Slice(Receiver, 32, 64) /\ Len(last.out) = 32

(* C3 amended: PubKey() on a key of at least 32 bytes whose bytes from 32
   to its end are all zero panics with the message of its own and returns
   no key; on a key shorter than 32 bytes it panics on the slice bounds;
   otherwise it returns the bytes from 32 to the end of the key unchanged,
   which for a 64-byte key are bytes 32..64, 32 bytes and not all zero. *)
ThmC3 ==
    last.op = "PubKey" =>
        IF Len(Receiver) < 32
        THEN last.kind = "panic" /\ last.err = ErrSliceBounds /\ last.out = <<>>
        ELSE IF IsZero(Slice(Receiver, 32, Len(Receiver)))
        THEN last.kind = "panic" /\ last.err = ErrUninitialized /\ last.out = <<>>
        ELSE /\ last.kind = "ok"
             /\ last.out = Slice(Receiver, 32, Len(Receiver))
             /\ Len(Receiver) = 64 =>
                   (last.out = Slice(Receiver, 32, 64) /\ Len(last.out) = 32
                    /\ ~IsZero(last.out))

WitC3 ==
    /\ last.op = "PubKey"
    /\ Len(Receiver) = 64
    /\ IsZero(Slice(Receiver, 32, 64))
    /\ last.kind = "panic"
    /\ last.err = ErrUninitialized

(* C4 as stated: Bytes() of a PrivKey and of a PubKey is the type-tagged
   encoding, and decoding it gives back the key: its type and its bytes. *)
CxC4 ==
    last.op \in {"PrivKey.Bytes", "PubKey.Bytes"} =>
        LET d == Decode(last.out)
        IN  /\ d.kind = "ok"
            /\ d.typ = refs[last.recv].typ
            /\ d.raw = Receiver

(* C5: PrivKey.Equals is reflexive; it is symmetric between two PrivKeys;
   it is false for a key of another type and for bytes of another length. *)
ThmC5 ==
    /\ \A i \in RefsOf("PrivKey") :
          Idle => PrivKey_Equals(View(i), [typ |-> "PrivKey", bz |-> View(i)])
    /\ last.op = "PrivKey.Equals" =>
          /\ last.other.typ # "PrivKey" => ~last.val
          /\ Len(last.other.bz) # Len(Receiver) => ~last.val
          /\ (last.other.typ = "PrivKey" /\ last.other.bz = Receiver) => last.val
          /\ last.other.typ = "PrivKey" =>
                (last.val <=> PrivKey_Equals(last.other.bz,
                                             [typ |-> "PrivKey", bz |-> Receiver]))

WitC5 ==
    /\ last.op = "PrivKey.Equals"
    /\ last.other.typ = "Foreign"
    /\ last.other.bz = Receiver
    /\ ~last.val

(* C6 as stated: Address() on a public key whose length is not 32 fails
   with the typed InvalidLength error; on a 32-byte key it returns 20 bytes,
   the truncated hash of the key. *)
CxC6 ==
    last.op = "Address" =>
        IF Len(Receiver) # 32
        THEN last.kind = "error" /\ last.err = "InvalidLength"
        ELSE /\ last.kind = "ok"
             /\ Len(last.out) = 20
             /\ last.out = SubSeq(Sha256(Receiver), 1, 20)

(* C6 amended: Address() on a public key whose length is not 32 panics with
   the message "pubkey is incorrect size" and returns no address; on a
   32-byte key it returns 20 bytes, the first 20 of the SHA-256 digest of
   the key, so the same key always gives the same address. *)
ThmC6 ==
    last.op = "Address" =>
        IF Len(Receiver) # 32
        THEN last.kind = "panic" /\ last.err = ErrPubKeySize /\ last.out = <<>>
        ELSE /\ last.kind = "ok"
             /\ Len(last.out) = 20
             /\ last.out = SubSeq(Sha256(Receiver), 1, 20)

WitC6 ==
    /\ last.op = "Address"
    /\ Len(Receiver) = 33
    /\ last.kind = "panic"

(* C7: GenPrivKeyFromSecret(s) is the 64 bytes seed || derive_public(seed)
   with seed = SHA-256(s), and all the calls made with one secret returned
   the same key. *)
ThmC7 ==
    /\ last.op = "GenPrivKeyFromSecret" =>
          LET seed == Sha256(last.secret)
          IN  /\ Len(last.out) = 64
              /\ Slice(last.out, 0, 32) = seed
              /\ Slice(last.out, 32, 64) = DerivePublic(seed)
    /\ \A p \in derived, q \in derived : p[1] = q[1] => p[2] = q[2]

(* a second call with the secret of a key derived and kept earlier *)
WitC7 ==
    /\ last.op = "GenPrivKeyFromSecret"
    /\ last.secret = <<115, 116>>
    /\ \E i \in RefsOf("PrivKey") : i < Len(refs) /\ View(i) = last.out

(* C8 as stated: VerifyBytes on a public key whose length is not 32 returns
   false without panicking and without calling ed25519.Verify, also when
   the signature has 64 bytes. *)
CxC8 ==
    (last.op = "VerifyBytes" /\ Len(Receiver) # 32)
    => (last.kind = "ok" /\ ~last.val /\ ~last.prim)

(* C9 as stated: every key that Sign or PubKey() accepts has the layout of
   section 3. *)
CxC9 ==
    (last.op \in {"Sign", "PubKey"} /\ last.kind = "ok") => WellFormed(Receiver)

(* C9 amended: Sign accepts exactly the keys of 64 bytes and PubKey()
   exactly the keys of at least 32 bytes with a non-zero byte from 32 on;
   neither compares bytes 32..64 with derive_public(bytes 0..32).  The keys
   GenPrivKey and GenPrivKeyFromSecret return have the layout, and for a key
   that both accept, PubKey() verifies the signatures of Sign exactly when
   the key has the layout. *)
ThmC9 ==
    /\ last.op = "Sign" => (last.kind = "ok" <=> Len(Receiver) = 64)
    /\ last.op = "PubKey" =>
          (last.kind = "ok" <=>
              (Len(Receiver) >= 32 /\ ~IsZero(Slice(Receiver, 32, Len(Receiver)))))
    /\ (last.op \in {"GenPrivKey", "GenPrivKeyFromSecret"} /\ last.kind = "ok")
          => WellFormed(last.out)
    /\ \A i \in RefsOf("PrivKey"), m \in Msgs :
          LET pub == PrivKey_PubKey(View(i))
              sig == Sign(View(i), m)
          IN  (Idle /\ pub.kind = "ok" /\ sig.kind = "ok") =>
                  /\ VerifyBytes(pub.out, m, sig.out).kind = "ok"
                  /\ VerifyBytes(pub.out, m, sig.out).val <=> WellFormed(View(i))

(* a key without the layout, accepted by Sign and by PubKey() *)
WitC9 ==
    /\ last.op = "Sign"
    /\ last.kind = "ok"
    /\ ~WellFormed(Receiver)
    /\ PrivKey_PubKey(Receiver).kind = "ok"

(* C10 as stated: a store through a PubKey or through the bytes a PubKey
   gave out changes no byte of any PrivKey, and no call changes a byte of
   any buffer. *)
CxC10 ==
    [][ /\ last'.op = "Write" =>
              \A i \in RefsOf("PrivKey") : ViewIn(heap', refs[i]) = View(i)
        /\ last'.op # "Write" =>
              \A a \in 1..Len(heap) : heap'[a] = heap[a] ]_vars

====
